---- MODULE Spec2Model ----
(***************************************************************************)
(* A model of pylons/templating.py: the Buffet engine facade (constructor, *)
(* prepare, render), the cached_template cache adapter and the ambient     *)
(* namespace built by pylons_globals.                                      *)
(*                                                                         *)
(* Python values are tagged tuples, so that None, strings, booleans,       *)
(* numbers, lists, dicts and opaque objects can be told apart and          *)
(* compared.  A Python dict is a TLA+ function from key strings to tagged  *)
(* values.  Python strings are TLA+ strings, cut and joined with SubSeq    *)
(* and \o the way the code cuts and joins them.                            *)
(***************************************************************************)
EXTENDS Naturals, Sequences, FiniteSets, TLC

VARIABLES
    discovery,          \* the module's discovery loop: the entry points of
                        \* the group, the loop's position, the warnings
    available_engines,  \* module-level registry: engine name -> factory
    constructed,        \* whether Buffet.__init__ has returned an instance
    default_engine,     \* self.default_engine
    template_root,      \* self.template_root
    default_options,    \* self.default_options
    engines,            \* self.engines: name or alias -> [engine, root]
    instances,          \* number of engine instances created so far
    cache,              \* the external cache: <<namespace, key>> -> value
    last                \* the latest call: its arguments and what it did

vars == <<discovery, available_engines, constructed, default_engine, template_root,
          default_options, engines, instances, cache, last>>

-----------------------------------------------------------------------------
(* Python values *)

None == <<"None">>
Str(s) == <<"str", s>>
PyTrue == <<"bool", "True">>
PyFalse == <<"bool", "False">>
Int(n) == <<"int", n>>
List(xs) == <<"list", xs>>
Dict(d) == <<"dict", d>>
Obj(name) == <<"obj", name>>

\* bool(v): None, "", False, 0, [] and {} are false, everything else true.
Truthy(v) ==
    /\ v # None
    /\ v # Str("")
    /\ v # PyFalse
    /\ v # Int(0)
    /\ v # List(<<>>)
    /\ ~(v[1] = "dict" /\ DOMAIN v[2] = {})

\* str(v), as used by "%s" formatting and by str() in cached_template.
PyStr(v) ==
    IF v = None THEN "None"
    ELSE IF v[1] = "str" THEN v[2]
    ELSE IF v[1] = "bool" THEN v[2]
    ELSE IF v[1] = "int" THEN ToString(v[2])
    ELSE "<" \o v[1] \o ">"

\* a or b
PyOr(a, b) == IF Truthy(a) THEN a ELSE b

EmptyDict == [k \in {} |-> None]
DictGet(d, k, dflt) == IF k \in DOMAIN d THEN d[k] ELSE dflt
DictPut(d, k, v) == [x \in DOMAIN d \cup {k} |-> IF x = k THEN v ELSE d[x]]
DictDel(d, k) == [x \in DOMAIN d \ {k} |-> d[x]]
\* d.update(e): the entries of e win.
DictUpdate(d, e) ==
    [x \in DOMAIN d \cup DOMAIN e |-> IF x \in DOMAIN e THEN e[x] ELSE d[x]]

-----------------------------------------------------------------------------
(* Python string methods *)

StartsWith(s, p) == Len(s) >= Len(p) /\ SubSeq(s, 1, Len(p)) = p

RECURSIVE Replace(_, _, _)
\* s.replace(old, new) for a one-character old
Replace(s, old, new) ==
    IF Len(s) = 0 THEN ""
    ELSE (IF SubSeq(s, 1, 1) = old THEN new ELSE SubSeq(s, 1, 1))
         \o Replace(SubSeq(s, 2, Len(s)), old, new)

RECURSIVE LStrip(_, _)
\* s.lstrip(ch) for a one-character ch
LStrip(s, ch) ==
    IF Len(s) > 0 /\ SubSeq(s, 1, 1) = ch
    THEN LStrip(SubSeq(s, 2, Len(s)), ch)
    ELSE s

Sep == "/"

\* os.path.join(a, b) on a POSIX system
PathJoin(a, b) ==
    IF StartsWith(b, Sep) THEN b
    ELSE IF Len(a) = 0 \/ SubSeq(a, Len(a), Len(a)) = Sep THEN a \o b
    ELSE a \o Sep \o b

-----------------------------------------------------------------------------
(* Exceptions and call outcomes *)

NoError == <<"ok">>
Raise(type, msg) == <<"raise", type, msg>>
Raised(r) == r.raised # NoError
ErrType(r) == IF Raised(r) THEN r.raised[2] ELSE ""

-----------------------------------------------------------------------------
(* pylons_globals: the ambient namespace of the current request *)

\* The names pylons_globals always returns.  c and tmpl_context are the same
\* object.
GlobalNames ==
    {"c", "tmpl_context", "config", "g", "h", "request", "response",
     "translator", "ungettext", "_", "N_"}

Ambient(k) == IF k = "c" THEN Obj("pylons.tmpl_context") ELSE Obj("pylons." \o k)

\* session is left out when the deployment overrode it to None.
pylons_globals(session) ==
    [k \in GlobalNames \cup (IF session THEN {"session"} ELSE {}) |-> Ambient(k)]

-----------------------------------------------------------------------------
(* Engine plugins *)

MyghtyPrefix == "myghty."

\* MyghtyTemplatePlugin.__init__: the options named myghty.X become the
\* interpreter's parameter X.  The interpreter keeps its parameters, and its
\* global_args parameter as the attribute of that name.
MyghtyTemplatePlugin(id, extra_vars_func, options) ==
    LET keys == {k \in DOMAIN options : StartsWith(k, MyghtyPrefix)}
        short(k) == SubSeq(k, Len(MyghtyPrefix) + 1, Len(k))
        myt_opts == [s \in {short(k) : k \in keys} |->
                        options[CHOOSE k \in keys : short(k) = s]]
    IN  [id |-> id, cls |-> "MyghtyTemplatePlugin",
         extra_vars |-> extra_vars_func, options |-> options,
         interpreter |-> <<"interp",
             [init_params |-> myt_opts,
              global_args |-> DictGet(myt_opts, "global_args", Dict(EmptyDict))]>>]

\* Any other plugin of the entry point group: it is built from the same two
\* arguments and has no interpreter attribute.
ExternalPlugin(cls, id, extra_vars_func, options) ==
    [id |-> id, cls |-> cls, extra_vars |-> extra_vars_func,
     options |-> options, interpreter |-> None]

\* Engine(extra_vars_func=..., options=...) for a factory of the registry
Instantiate(factory, id, extra_vars_func, options) ==
    IF factory = Obj("MyghtyTemplatePlugin")
    THEN MyghtyTemplatePlugin(id, extra_vars_func, options)
    ELSE ExternalPlugin(factory[2], id, extra_vars_func, options)

\* The registry after discovery: the installed plugins that loaded.
Discovered ==
    [n \in {"genshi", "pylonsmyghty"} |->
        IF n = "pylonsmyghty" THEN Obj("MyghtyTemplatePlugin")
        ELSE Obj("GenshiTemplatePlugin")]

\* An entry point of the group python.templating.engines: its name, the
\* factory its load() returns, and how load() ends ("ok", or the exception
\* it raises).
EntryPoint(name, factory, outcome) ==
    [name |-> name, factory |-> factory, outcome |-> outcome]

\* warnings.warn("Unable to load template engine entry point: ...",
\* RuntimeWarning, 2)
Warning(ep) == <<"RuntimeWarning", ep.name, ep.factory, ep.outcome>>

\* The warning test with and in place of or
LoadEntryPointQuiet(reg, warns, ep) ==
    IF ep.outcome = "ok"
    THEN [registry |-> DictPut(reg, ep.name, ep.factory), warnings |-> warns]
    ELSE IF ep.outcome # "DistributionNotFound" /\ ep.name # "pylonsmyghty"
    THEN [registry |-> reg, warnings |-> Append(warns, Warning(ep))]
    ELSE [registry |-> reg, warnings |-> warns]

\* One turn of the discovery loop: the entry point is loaded and registered
\* under its name; when the load raises, a warning is given unless it is
\* pylonsmyghty reporting DistributionNotFound.
LoadEntryPoint(reg, warns, ep) ==
    IF ep.outcome = "ok"
    THEN [registry |-> DictPut(reg, ep.name, ep.factory), warnings |-> warns]
    ELSE IF ep.outcome # "DistributionNotFound" \/ ep.name # "pylonsmyghty"
    THEN [registry |-> reg, warnings |-> Append(warns, Warning(ep))]
    ELSE [registry |-> reg, warnings |-> warns]

\* The entry points behind the registry the Buffet calls start from
Installed ==
    <<EntryPoint("genshi", Obj("GenshiTemplatePlugin"), "ok"),
      EntryPoint("pylonsmyghty", Obj("MyghtyTemplatePlugin"), "ok")>>

\* The loop after its last turn on the entry points eps
Finished(eps) == [entry_points |-> eps, pos |-> Len(eps) + 1, warnings |-> <<>>]

-----------------------------------------------------------------------------
(* Buffet.prepare *)

\* A lookup that falls back on any prepared entry
EnginesGetAny(engs, name) ==
    IF name[1] = "str" /\ name[2] \in DOMAIN engs THEN Dict(engs[name[2]])
    ELSE IF DOMAIN engs # {}
    THEN Dict(engs[CHOOSE k \in DOMAIN engs : TRUE])
    ELSE None

\* self.engines.get(name)
EnginesGet(engs, name) ==
    IF name[1] = "str" /\ name[2] \in DOMAIN engs THEN Dict(engs[name[2]])
    ELSE None

\* The entry taken out of the table by the lookup (pop for get)
EnginesAfterPop(engs, name) ==
    IF name[1] = "str" /\ name[2] \in DOMAIN engs THEN DictDel(engs, name[2])
    ELSE engs

\* self.engines after render's self.engines.get(engine_name), the one place
\* where render touches the table: get leaves it as it is.
EnginesAfterGet(engs, name) == engs

\* A lookup with a default factory
RegistryGetDefault(avail, engine_name) ==
    IF engine_name[1] = "str"
    THEN DictGet(avail, engine_name[2], Obj("MyghtyTemplatePlugin"))
    ELSE None

\* available_engines.get(engine_name, None)
RegistryGet(avail, engine_name) ==
    IF engine_name[1] = "str" THEN DictGet(avail, engine_name[2], None)
    ELSE None

\* The name the entry is stored under: alias or engine_name
EntryName(engine_name, alias) == PyOr(alias, engine_name)

\* An entry that reuses the instance the table already holds for the factory
NewEntryShared(engs, factory, id, name, root, config) ==
    LET same == {k \in DOMAIN engs : Obj(engs[k].engine.cls) = factory}
    IN  IF same # {}
        THEN [engine |-> engs[CHOOSE k \in same : TRUE].engine, root |-> root]
        ELSE [engine |-> Instantiate(factory, id,
                            DictGet(config, name \o ".extra_vars_func", None),
                            DictDel(config, name \o ".extra_vars_func")),
              root |-> root]

\* dict(engine=Engine(extra_vars_func=extra_vars_func, options=config),
\*      root=template_root), extra_vars_func popped from config under the
\* entry's name
NewEntry(engs, factory, id, name, root, config) ==
    [engine |-> Instantiate(factory, id,
                    DictGet(config, name \o ".extra_vars_func", None),
                    DictDel(config, name \o ".extra_vars_func")),
     root |-> root]

\* prepare(engine_name, template_root, alias, **config) on a table engs with
\* n instances created so far: what it raises, and the table and the count
\* after it.
Prepare(avail, engs, n, engine_name, root, alias, config) ==
    LET Engine == RegistryGet(avail, engine_name)
    IN  IF ~Truthy(Engine)
        THEN [raised |-> Raise("TemplateEngineMissing",
                  "Please install a plugin for \"" \o PyStr(engine_name)
                  \o "\" to use its functionality"),
              engines |-> engs, instances |-> n]
        ELSE LET name == EntryName(engine_name, alias)[2]
             IN  [raised |-> NoError,
                  engines |-> DictPut(engs, name,
                      NewEntry(engs, Engine, n + 1, name, root, config)),
                  instances |-> n + 1]

-----------------------------------------------------------------------------
(* The engines' render methods *)

\* What extra_vars_func() returns: the plugin's caller supplies it.
ExtraVars(f) == [k \in {"extra_var"} |-> Obj(PyStr(f) \o "()")]

\* The document an engine renders: engines are external, so the document is
\* the term made of everything the engine was given.
Doc(id, template, namespace, global_args, options) ==
    <<"doc", [engine |-> id, template |-> template, namespace |-> namespace,
              global_args |-> global_args, options |-> options]>>

MyghtyRenderKeywords ==
    {"format", "fragment", "template", "output_encoding", "encoding_errors",
     "disable_unicode"}

\* MyghtyTemplatePlugin.render(info, template=..., **options)
MyghtyRender(inst, info, template, options) ==
    IF ~(DOMAIN options \subseteq MyghtyRenderKeywords \ {"template"})
    THEN [raised |-> Raise("TypeError", "render() got an unexpected keyword argument"),
          value |-> None]
    ELSE IF "_global_args" \notin DOMAIN info
    THEN [raised |-> Raise("KeyError", "_global_args"), value |-> None]
    ELSE
    LET global_args0 == info["_global_args"][2]
        global_args == IF Truthy(inst.extra_vars)
                       THEN DictUpdate(global_args0, ExtraVars(inst.extra_vars))
                       ELSE global_args0
        opt(k) == DictGet(options, k, None)
        optional_args ==
            [k \in {x \in {"output_encoding", "encoding_errors", "disable_unicode"} :
                        Truthy(opt(x))}
                   \cup (IF Truthy(DictGet(options, "fragment", PyFalse))
                         THEN {"disable_wrapping"} ELSE {})
             |-> IF k = "disable_wrapping" THEN PyTrue ELSE opt(k)]
    IN  [raised |-> NoError,
         value |-> Doc(inst.id, template, Dict(DictDel(info, "_global_args")),
                       Dict(global_args), Dict(optional_args))]

\* engine.render(namespace, template=full_path, **options) of a prepared
\* instance
EngineRender(inst, namespace, template, options) ==
    IF inst.cls = "MyghtyTemplatePlugin"
    THEN MyghtyRender(inst, namespace, template, options)
    ELSE [raised |-> NoError,
          value |-> Doc(inst.id, template, Dict(namespace), None, Dict(options))]

\* One entry of a call's log of engine render invocations
EngineCall(inst, namespace, template, options) ==
    LET r == EngineRender(inst, namespace, template, options)
    IN  [engine |-> inst.id, namespace |-> namespace, template |-> template,
         options |-> options, raised |-> r.raised, returned |-> r.value]

-----------------------------------------------------------------------------
(* The external cache: pylons.cache.get_cache(ns).get_value(key, ...) *)

EmptyStore == [s \in {} |-> None]

\* get_value(key, createfunc, type, expiretime) on the cache of namespace ns:
\* a held value that has not expired is returned; otherwise createfunc is
\* called and its value is stored and returned.  A held value expires only
\* under a finite expiretime, once its age has reached it (aged).  create is
\* the outcome createfunc has when it is called.  Values are kept by
\* (namespace, key).
GetValue(store, ns, key, createfunc, type, expiretime, aged, create) ==
    LET slot == <<ns, key>>
        hit == slot \in DOMAIN store /\ (expiretime = None \/ ~aged)
        call == [namespace |-> ns, key |-> key, createfunc |-> createfunc,
                 type |-> type, expiretime |-> expiretime, hit |-> hit]
    IN  IF hit
        THEN [raised |-> NoError, value |-> store[slot], invoked |-> FALSE,
              store |-> store, call |-> call]
        ELSE IF create.raised # NoError
        THEN [raised |-> create.raised, value |-> None, invoked |-> TRUE,
              store |-> store, call |-> call]
        ELSE [raised |-> NoError, value |-> create.value, invoked |-> TRUE,
              store |-> [s \in DOMAIN store \cup {slot} |->
                            IF s = slot THEN create.value ELSE store[s]],
              call |-> call]

-----------------------------------------------------------------------------
(* Buffet.render *)

\* No fallback on the default engine
ResolveEngineGiven(engine_name, dflt) == engine_name

\* if not engine_name and self.default_engine: engine_name = self.default_engine
ResolveEngine(engine_name, dflt) ==
    IF ~Truthy(engine_name) /\ Truthy(dflt) THEN dflt ELSE engine_name

LegacyName == "pylonsmyghty"

ReservedKeywords == {"output_encoding", "encoding_errors", "disable_unicode"}

\* The legacy branch's options: the reserved keywords found in the namespace
\* are moved into the options.
LegacyOptions(namespace, options) ==
    DictUpdate(options,
        [k \in ReservedKeywords \cap DOMAIN namespace |-> namespace[k]])

\* The set of the names of a Python list of strings
ListNames(l) == {l[2][i] : i \in 1..Len(l[2])}

\* The legacy branch's namespace: the reserved keywords are taken out, the
\* ambient namespace (or {}) goes under _global_args, and every name the
\* interpreter declares global is moved from the namespace to _global_args.
LegacyNamespace(namespace, include, session, interp) ==
    LET ns1 == [k \in DOMAIN namespace \ ReservedKeywords |-> namespace[k]]
        ga == IF include THEN pylons_globals(session) ELSE EmptyDict
        ns2 == DictPut(ns1, "_global_args", Dict(ga))
        declared == DOMAIN interp.global_args[2]
                    \cup ListNames(DictGet(interp.init_params, "allow_globals",
                                           List(<<>>)))
        moved == declared \cap DOMAIN ns2
    IN  IF "_global_args" \in moved
        THEN [raised |-> Raise("KeyError", "_global_args"), namespace |-> ns2]
        ELSE [raised |-> NoError,
              namespace |->
                  [k \in DOMAIN ns2 \ moved |->
                      IF k = "_global_args"
                      THEN Dict(DictUpdate(ga, [m \in moved |-> ns2[m]]))
                      ELSE ns2[k]]]

\* The given namespace updated with the ambient one: the ambient entries win
MergeNamespaceAmbientWins(namespace, include, session) ==
    IF namespace = None
    THEN IF ~include
         THEN [raised |-> Raise("BuffetError",
                   "You must specify namespace when include_pylons_variables is False"),
               namespace |-> EmptyDict]
         ELSE [raised |-> NoError, namespace |-> pylons_globals(session)]
    ELSE IF include
    THEN [raised |-> NoError,
          namespace |-> DictUpdate(namespace[2], pylons_globals(session))]
    ELSE [raised |-> NoError, namespace |-> namespace[2]]

\* An empty namespace in place of the error
MergeNamespaceEmpty(namespace, include, session) ==
    IF namespace = None
    THEN IF ~include
         THEN [raised |-> NoError, namespace |-> EmptyDict]
         ELSE [raised |-> NoError, namespace |-> pylons_globals(session)]
    ELSE IF include
    THEN [raised |-> NoError,
          namespace |-> DictUpdate(pylons_globals(session), namespace[2])]
    ELSE [raised |-> NoError, namespace |-> namespace[2]]

\* The other engines' namespace: the ambient namespace when none is given,
\* the ambient namespace updated with the given one when both are wanted, the
\* given one alone otherwise.
MergeNamespace(namespace, include, session) ==
    IF namespace = None
    THEN IF ~include
         THEN [raised |-> Raise("BuffetError",
                   "You must specify namespace when include_pylons_variables is False"),
               namespace |-> EmptyDict]
         ELSE [raised |-> NoError, namespace |-> pylons_globals(session)]
    ELSE IF include
    THEN [raised |-> NoError,
          namespace |-> DictUpdate(pylons_globals(session), namespace[2])]
    ELSE [raised |-> NoError, namespace |-> namespace[2]]

\* The other engines' template identifier: a root-relative name becomes a
\* dotted path under the entry's root, unless the engine's name starts with
\* pylons or mako or the entry has no root.
FullPath(engine_name, root, template_name) ==
    IF /\ ~StartsWith(template_name, Sep)
       /\ ~StartsWith(engine_name, "pylons")
       /\ ~StartsWith(engine_name, "mako")
       /\ root # None
    THEN LStrip(Replace(PathJoin(root[2], template_name), Sep, "."), ".")
    ELSE template_name

\* format dropped whatever its value
DropFormatAlways(options) == DictDel(options, "format")

\* Don't pass format into the template engine if it's None
DropFormat(options) ==
    IF "format" \in DOMAIN options /\ options["format"] = None
    THEN DictDel(options, "format")
    ELSE options

\* Only the key and the type looked at
CacheRequestedKeyed(cache_key, cache_expire, cache_type) ==
    cache_key # None \/ cache_type # None

\* If one of them is not None then the user did set something
CacheRequested(cache_key, cache_expire, cache_type) ==
    cache_key # None \/ cache_expire # None \/ cache_type # None

\* if not cache_type: cache_type = 'dbm'
CacheType(cache_type) == IF ~Truthy(cache_type) THEN Str("dbm") ELSE cache_type
\* if not cache_key: cache_key = 'default'
CacheKey(cache_key) == IF ~Truthy(cache_key) THEN Str("default") ELSE cache_key
\* never taken for no time at all
CacheExpireZero(cache_expire) ==
    IF cache_expire = Str("never") THEN Int(0) ELSE cache_expire

\* if cache_expire == 'never': cache_expire = None
CacheExpire(cache_expire) ==
    IF cache_expire = Str("never") THEN None ELSE cache_expire

\* render's cache namespace: the template identifier, _frag for a fragment,
\* and the format
TFile(full_path, options) ==
    full_path
    \o (IF Truthy(DictGet(options, "fragment", PyFalse)) THEN "_frag" ELSE "")
    \o (IF Truthy(DictGet(options, "format", PyFalse))
        THEN options["format"][2] ELSE "")

Failure(raised) ==
    [raised |-> raised, value |-> None, engine_calls |-> <<>>,
     cache_calls |-> <<>>, store |-> EmptyStore, resolved |-> None]

\* The engine called once more than needed
DirectTwice(call, store, resolved) ==
    [raised |-> call.raised, value |-> call.returned,
     engine_calls |-> <<call, call>>, cache_calls |-> <<>>,
     store |-> store, resolved |-> resolved]

\* return engine_config['engine'].render(namespace, template=full_path,
\* **options): call is that one call and what came of it
Direct(call, store, resolved) ==
    [raised |-> call.raised, value |-> call.returned,
     engine_calls |-> <<call>>, cache_calls |-> <<>>,
     store |-> store, resolved |-> resolved]

\* The tail of render, from the format option on: the engine is called
\* directly, or by the cache when the cache holds no value.
Dispatch(entry, namespace, full_path, options0, a, store, aged, resolved) ==
    LET options == DropFormat(options0)
        call == EngineCall(entry.engine, namespace, full_path, options)
        create == [raised |-> call.raised, value |-> call.returned]
    IN  IF CacheRequested(a.cache_key, a.cache_expire, a.cache_type)
        THEN LET g == GetValue(store, TFile(full_path, options),
                               CacheKey(a.cache_key), "content",
                               CacheType(a.cache_type),
                               CacheExpire(a.cache_expire), aged, create)
             IN  [raised |-> g.raised, value |-> g.value,
                  engine_calls |-> IF g.invoked THEN <<call>> ELSE <<>>,
                  cache_calls |-> <<g.call>>, store |-> g.store,
                  resolved |-> resolved]
        ELSE Direct(call, store, resolved)

\* render(engine_name, template_name, include_pylons_variables, namespace,
\* cache_key, cache_expire, cache_type, **options) on the table engs: what it
\* raises or returns, the engine and cache calls it makes, and the cache
\* after it.
Render(engs, dflt, a, store, aged) ==
    LET session == a.session
        engine_name == ResolveEngine(a.engine_name, dflt)
        engine_config == EnginesGet(engs, engine_name)
    IN  IF ~Truthy(engine_config)
        THEN [Failure(Raise("Exception",
                  "No engine with that name configured: " \o PyStr(engine_name)))
              EXCEPT !.store = store, !.resolved = engine_name]
        ELSE
        LET entry == engine_config[2]
            include == Truthy(a.include)
        IN  IF engine_name = Str(LegacyName)
            THEN LET given == IF a.namespace = None THEN EmptyDict
                              ELSE a.namespace[2]
                     interp == entry.engine.interpreter
                 IN  IF interp = None
                     THEN [Failure(Raise("AttributeError", "interpreter"))
                           EXCEPT !.store = store, !.resolved = engine_name]
                     ELSE LET n == LegacyNamespace(given, include, session,
                                                   interp[2])
                          IN  IF n.raised # NoError
                              THEN [Failure(n.raised) EXCEPT !.store = store,
                                        !.resolved = engine_name]
                              ELSE Dispatch(entry, n.namespace, a.template_name,
                                       LegacyOptions(given, a.options), a,
                                       store, aged, engine_name)
            ELSE LET n == MergeNamespace(a.namespace, include, session)
                 IN  IF n.raised # NoError
                     THEN [Failure(n.raised) EXCEPT !.store = store,
                               !.resolved = engine_name]
                     ELSE Dispatch(entry, n.namespace,
                              FullPath(engine_name[2], entry.root, a.template_name),
                              a.options, a, store, aged, engine_name)

-----------------------------------------------------------------------------
(* cached_template *)

RECURSIVE NamespaceSuffix(_, _)
\* for name in ns_options: namespace += str(kwargs.get(name))
NamespaceSuffix(ns_options, kwargs) ==
    IF ns_options = <<>> THEN ""
    ELSE PyStr(DictGet(kwargs, Head(ns_options), None))
         \o NamespaceSuffix(Tail(ns_options), kwargs)

CacheNamespace(template_name, ns_options, kwargs) ==
    template_name \o NamespaceSuffix(ns_options, kwargs)

\* What a render callback does when it is called: its output is a function
\* of the callback alone.
Callback(f) == [raised |-> NoError, value |-> <<"output", f>>]

\* cached_template(template_name, render_func, ns_options, cache_key,
\* cache_type, cache_expire, **kwargs): what it raises or returns, how often
\* it calls render_func itself, the cache calls it makes, whether the cache
\* called render_func, and the cache after it.
CachedTemplate(a, store, aged) ==
    IF CacheRequested(a.cache_key, a.cache_expire, a.cache_type)
    THEN LET g == GetValue(store,
                      CacheNamespace(a.template_name, a.ns_options, a.options),
                      CacheKey(a.cache_key), a.render_func,
                      CacheType(a.cache_type), CacheExpire(a.cache_expire),
                      aged, Callback(a.render_func))
         IN  [raised |-> g.raised, value |-> g.value, direct_calls |-> 0,
              cache_calls |-> <<g.call>>, created |-> g.invoked,
              store |-> g.store]
    ELSE LET r == Callback(a.render_func)
         IN  [raised |-> r.raised, value |-> r.value, direct_calls |-> 1,
              cache_calls |-> <<>>, created |-> FALSE, store |-> store]

-----------------------------------------------------------------------------
(* Bounds and the inputs the calls are drawn from *)

\* Engine instances created on the one Buffet instance
MaxInstances == 2
\* Values the external cache holds
MaxEntries == 2

RegisteredNames == {Str("genshi"), Str(LegacyName)}
PrepareNames == RegisteredNames \cup {Str("kid")}
Aliases == {None, Str("alt")}
RenderNames == {None, Str("genshi"), Str("alt"), Str(LegacyName)}

\* template_root and **config of a prepare call
Setups ==
    {<<None, EmptyDict>>,
     <<Str("/tpl"),
       [k \in {"myghty.allow_globals", "alt.extra_vars_func"} |->
           IF k = "myghty.allow_globals" THEN List(<<"name">>)
           ELSE Obj("extra_vars")]>>}

TemplateNames == {"hello.txt", "/hello.txt"}

\* <<include_pylons_variables, whether the deployment has a session>>: the
\* session matters only to a call that reads the ambient namespace.
Includes == {<<PyFalse, FALSE>>, <<PyTrue, FALSE>>, <<PyTrue, TRUE>>}

Namespaces ==
    {None,
     Dict([k \in {"name"} |-> Str("Ada")]),
     Dict([k \in {"c", "output_encoding"} |->
              IF k = "c" THEN Str("mine") ELSE Str("latin1")])}

OptionSets ==
    {EmptyDict,
     [k \in {"format"} |-> Str("xhtml")],
     [k \in {"format", "fragment", "output_encoding"} |->
         IF k = "format" THEN None
         ELSE IF k = "fragment" THEN PyTrue ELSE Str("utf8")]}

\* A document another call left in the cache
StaleDoc == <<"stale">>

\* <<cache_key, cache_expire, cache_type>> of a render call, what the cache
\* holds for it (None: nothing) and whether that has reached a finite
\* expiretime
CacheCases ==
    {<<None, None, None, None, FALSE>>,
     <<None, Str("never"), None, None, FALSE>>,
     <<None, Str("never"), None, StaleDoc, TRUE>>,
     <<Str("k"), Int(60), Str("memory"), StaleDoc, FALSE>>,
     <<Str("k"), Int(60), Str("memory"), StaleDoc, TRUE>>}

NoArgs ==
    [engine_name |-> None, template_name |-> "", include |-> PyFalse,
     namespace |-> None, cache_key |-> None, cache_expire |-> None,
     cache_type |-> None, options |-> EmptyDict, template_root |-> None,
     alias |-> None, config |-> EmptyDict, render_func |-> "",
     ns_options |-> <<>>, session |-> FALSE]

NoCall ==
    [op |-> "", args |-> NoArgs, raised |-> NoError, value |-> None,
     resolved |-> None, engine_calls |-> <<>>, cache_calls |-> <<>>,
     direct_calls |-> 0, created |-> FALSE, engines_before |-> EmptyDict,
     repeat |-> FALSE, previous |-> None, previous_created |-> FALSE,
     earlier |-> None]

-----------------------------------------------------------------------------
(* The Buffet instance's life *)

Init ==
    /\ discovery = Finished(Installed)
    /\ available_engines = Discovered
    /\ constructed = FALSE
    /\ default_engine = None
    /\ template_root = None
    /\ default_options = EmptyDict
    /\ engines = EmptyDict
    /\ instances = 0
    /\ cache = EmptyStore
    /\ last = NoCall

\* No call is under way: the caller has taken the latest call's outcome.
Idle == last.op = ""

\* The caller takes the outcome of the call it made.
\* What the shared cache holds when the next call comes is not this process's
\* to say (see Found), so nothing is kept of it.
Return ==
    /\ ~Idle
    /\ last' = NoCall
    /\ cache' = EmptyStore
    /\ UNCHANGED <<discovery, available_engines, constructed, default_engine,
                   template_root, default_options, engines, instances>>

\* Buffet(default_engine, template_root, **config): the constructor prepares
\* the default engine, and no instance comes to exist when that fails.
New(dflt, root, config) ==
    /\ Idle
    /\ ~constructed
    /\ LET r == IF Truthy(dflt)
                THEN Prepare(available_engines, EmptyDict, 0, dflt, root,
                             None, config)
                ELSE [raised |-> NoError, engines |-> EmptyDict,
                      instances |-> 0]
       IN  /\ constructed' = (r.raised = NoError)
           /\ default_engine' = IF r.raised = NoError THEN dflt ELSE None
           /\ template_root' = IF r.raised = NoError THEN root ELSE None
           /\ engines' = r.engines
           /\ instances' = r.instances
           /\ last' = [NoCall EXCEPT !.op = "__init__",
                          !.args = [NoArgs EXCEPT !.engine_name = dflt,
                                       !.template_root = root,
                                       !.config = config],
                          !.raised = r.raised]
    /\ UNCHANGED <<discovery, available_engines, default_options, cache>>

\* buffet.prepare(engine_name, template_root, alias, **config)
PrepareCall(engine_name, root, alias, config) ==
    /\ Idle
    /\ constructed
    /\ \E r \in {Prepare(available_engines, engines, instances, engine_name,
                        root, alias, config)} :
           /\ r.instances <= MaxInstances
           /\ engines' = r.engines
           /\ instances' = r.instances
           /\ last' = [NoCall EXCEPT !.op = "prepare",
                          !.args = [NoArgs EXCEPT !.engine_name = engine_name,
                                       !.template_root = root,
                                       !.alias = alias, !.config = config],
                          !.raised = r.raised,
                          !.engines_before = engines]
    /\ UNCHANGED <<discovery, available_engines, constructed, default_engine,
                   template_root, default_options, cache>>

\* A render call's arguments, and with them the request's ambient state the
\* call reads: whether the deployment has a session (amb[2]).
RenderArgs(engine_name, template_name, amb, namespace, d, options) ==
    [NoArgs EXCEPT !.engine_name = engine_name,
        !.template_name = template_name, !.include = amb[1],
        !.session = amb[2],
        !.namespace = namespace, !.cache_key = d[1], !.cache_expire = d[2],
        !.cache_type = d[3], !.options = options]

\* The cache as a render call finds it.  The cache is shared and outlives the
\* process: the value this call looks up is there or not.
Found(a, held) ==
    IF held = None THEN EmptyStore
    ELSE LET probe == Render(engines, default_engine, a, EmptyStore, FALSE)
         IN  [s \in {<<c.namespace, c.key>> :
                        c \in {probe.cache_calls[i] :
                                  i \in 1..Len(probe.cache_calls)}} |-> held]

\* buffet.render(engine_name, template_name, include_pylons_variables,
\* namespace, cache_key, cache_expire, cache_type, **options)
RenderCall(a, held, aged) ==
    /\ Idle
    /\ constructed
    /\ \E r \in {Render(engines, default_engine, a, Found(a, held), aged)} :
           /\ last' = [NoCall EXCEPT !.op = "render", !.args = a,
                          !.raised = r.raised, !.value = r.value,
                          !.resolved = r.resolved,
                          !.engine_calls = r.engine_calls,
                          !.cache_calls = r.cache_calls,
                          !.engines_before = engines]
           /\ cache' = r.store
           /\ engines' = EnginesAfterGet(engines, r.resolved)
    /\ UNCHANGED <<discovery, available_engines, constructed, default_engine,
                   template_root, default_options, instances>>

Next ==
    \/ \E dflt \in PrepareNames \cup {None}, s \in Setups :
           New(dflt, s[1], s[2])
    \/ \E n \in PrepareNames, al \in Aliases, s \in Setups :
           PrepareCall(n, s[1], al, s[2])
    \/ \E n \in RenderNames, t \in TemplateNames, inc \in Includes,
          ns \in Namespaces, c \in CacheCases, o \in OptionSets :
           RenderCall(RenderArgs(n, t, inc, ns, c, o), c[4], c[5])
    \/ Return

Spec == Init /\ [][Next]_vars

-----------------------------------------------------------------------------
(* cached_template called over and over on a cache nobody else touches *)

Callbacks == {"render_template", "render_other"}

NsOptions == {<<>>, <<"fragment", "format">>}

Kwargs ==
    {EmptyDict,
     [k \in {"fragment", "format"} |->
         IF k = "fragment" THEN PyTrue ELSE Str("xhtml")]}

\* <<cache_key, cache_type, cache_expire>> of a cached_template call; the
\* last one gives a key and a type that are not None and yet false.
Directives ==
    {<<None, None, None>>, <<None, None, Str("never")>>,
     <<Str("k"), None, Str("never")>>, <<Str("k"), Str("memory"), Int(60)>>,
     <<None, Str("memory"), None>>, <<Int(0), Str(""), None>>}

CachedArgs(template_name, render_func, ns_options, d, kwargs) ==
    [NoArgs EXCEPT !.template_name = template_name,
        !.render_func = render_func, !.ns_options = ns_options,
        !.cache_key = d[1], !.cache_type = d[2], !.cache_expire = d[3],
        !.options = kwargs]

\* cached_template(template_name, render_func, ns_options, cache_key,
\* cache_type, cache_expire, **kwargs).  The call's record says whether the
\* call before it was the same call, and what that one returned.
CachedTemplateCall(a, aged) ==
    \E r \in {CachedTemplate(a, cache, aged)} :
        /\ Cardinality(DOMAIN r.store) <= MaxEntries
        /\ cache' = r.store
        /\ last' = [NoCall EXCEPT !.op = "cached_template", !.args = a,
                       !.raised = r.raised, !.value = r.value,
                       !.cache_calls = r.cache_calls,
                       !.direct_calls = r.direct_calls,
                       !.created = r.created,
                       !.repeat = (last.op = "cached_template" /\ last.args = a),
                       !.previous = last.value,
                       !.previous_created = last.created]
        /\ UNCHANGED <<discovery, available_engines, constructed, default_engine,
                       template_root, default_options, engines, instances>>

CacheNext ==
    \E f \in Callbacks, o \in NsOptions, d \in Directives, k \in Kwargs,
       aged \in BOOLEAN :
        CachedTemplateCall(CachedArgs("hello.txt", f, o, d, k), aged)

CacheSpec == Init /\ [][CacheNext]_vars

-----------------------------------------------------------------------------
(* Cached renders of one template, one after the other, on a cache nobody  *)
(* else touches                                                             *)

\* **options of a cached render call: the fragment and format variants
VariantOptions ==
    {EmptyDict,
     [k \in {"fragment"} |-> PyTrue],
     [k \in {"format"} |-> Str("xhtml")],
     [k \in {"format"} |-> Str("_frag")],
     [k \in {"fragment", "format"} |->
         IF k = "fragment" THEN PyTrue ELSE Str("xhtml")]}

\* <<cache_key, cache_expire, cache_type>> of a cached render call
VariantDirectives ==
    {<<None, Str("never"), None>>, <<Str("k"), Int(60), Str("memory")>>}

\* buffet.render(template_name=..., cache_key, cache_expire, cache_type,
\* **options) on the default engine.  The call's record keeps the render
\* call before it.
CachedRenderCall(a, aged) ==
    /\ constructed
    /\ \E r \in {Render(engines, default_engine, a, cache, aged)} :
           /\ Cardinality(DOMAIN r.store) <= MaxEntries
           /\ cache' = r.store
           /\ last' = [NoCall EXCEPT !.op = "render", !.args = a,
                          !.raised = r.raised, !.value = r.value,
                          !.resolved = r.resolved,
                          !.engine_calls = r.engine_calls,
                          !.cache_calls = r.cache_calls,
                          !.engines_before = engines,
                          !.earlier =
                              IF last.op = "render"
                              THEN <<"call", [args |-> last.args,
                                              cache_calls |-> last.cache_calls,
                                              value |-> last.value]>>
                              ELSE None]
           /\ engines' = EnginesAfterGet(engines, r.resolved)
    /\ UNCHANGED <<discovery, available_engines, constructed, default_engine,
                   template_root, default_options, instances>>

VariantNext ==
    \/ \E dflt \in PrepareNames \cup {None}, s \in Setups :
           New(dflt, s[1], s[2])
    \/ \E o \in VariantOptions, d \in VariantDirectives, aged \in BOOLEAN :
           CachedRenderCall(
               RenderArgs(None, "hello.txt", <<PyTrue, FALSE>>, None,
                          <<d[1], d[2], d[3]>>, o),
               aged)

VariantSpec == Init /\ [][VariantNext]_vars

-----------------------------------------------------------------------------
(* The discovery loop, run when the module is loaded *)

\* Entry points the group holds
MaxEntryPoints == 3

\* Two distributions offer genshi; every load can succeed, report a missing
\* distribution or fail some other way.
EntryPoints ==
    {EntryPoint(n[1], Obj(n[2]), o) :
        n \in {<<"genshi", "GenshiTemplatePlugin">>,
               <<"genshi", "OtherGenshiPlugin">>,
               <<"kid", "KidTemplatePlugin">>,
               <<"pylonsmyghty", "MyghtyTemplatePlugin">>},
        o \in {"ok", "DistributionNotFound", "ImportError"}}

RECURSIVE Groups(_)
\* The sequences of at most n entry points
Groups(n) ==
    IF n = 0 THEN {<<>>}
    ELSE LET shorter == Groups(n - 1)
         IN  shorter \cup {Append(g, e) : g \in shorter, e \in EntryPoints}

\* available_engines = {} and the loop about to start
DiscoveryInit ==
    /\ discovery \in {[entry_points |-> g, pos |-> 1, warnings |-> <<>>] :
                          g \in Groups(MaxEntryPoints)}
    /\ available_engines = EmptyDict
    /\ constructed = FALSE
    /\ default_engine = None
    /\ template_root = None
    /\ default_options = EmptyDict
    /\ engines = EmptyDict
    /\ instances = 0
    /\ cache = EmptyStore
    /\ last = NoCall

\* for entry_point in pkg_resources.iter_entry_points(...): one turn
DiscoverNext ==
    /\ discovery.pos <= Len(discovery.entry_points)
    /\ \E r \in {LoadEntryPoint(available_engines, discovery.warnings,
                                  discovery.entry_points[discovery.pos])} :
           /\ available_engines' = r.registry
           /\ discovery' = [discovery EXCEPT !.pos = @ + 1,
                                              !.warnings = r.warnings]
    /\ UNCHANGED <<constructed, default_engine, template_root,
                   default_options, engines, instances, cache, last>>

DiscoverySpec == DiscoveryInit /\ [][DiscoverNext]_vars

-----------------------------------------------------------------------------
(* What the latest call was, in the words of the claims *)

IsRender == last.op = "render"
IsPrepare == last.op = "prepare"
IsCachedTemplate == last.op = "cached_template"

\* The engine name a render call stands for: the given name, or the default
\* engine when none is given
Named == IF last.args.engine_name = None THEN default_engine
         ELSE last.args.engine_name

\* The table the latest call found
Before == last.engines_before

HasEntry(name) == name[1] = "str" /\ name[2] \in DOMAIN Before

NoDirective ==
    /\ last.args.cache_key = None
    /\ last.args.cache_type = None
    /\ last.args.cache_expire = None

Calls == last.engine_calls

-----------------------------------------------------------------------------
(* C1: a render call whose engine name (the given one, or the default       *)
(* engine when none is given) has no entry in the prepared-engine table     *)
(* fails with "No engine with that name configured" naming that engine,     *)
(* calls no engine's render and consults no cache.                          *)
C1_UnpreparedEngineFails ==
    (IsRender /\ ~HasEntry(Named)) =>
        /\ last.raised = Raise("Exception",
               "No engine with that name configured: " \o PyStr(Named))
        /\ Calls = <<>>
        /\ last.cache_calls = <<>>

\* An unprepared name is asked for, with a cache directive, while other
\* engines are prepared.
C1_Witness ==
    /\ IsRender
    /\ last.args.engine_name = Str("alt")
    /\ ~HasEntry(Named)
    /\ DOMAIN Before # {}
    /\ ~NoDirective
    /\ last.raised # NoError

(* C2: prepare with an engine_name absent from the registry raises          *)
(* TemplateEngineMissing, whatever the alias, and leaves the prepared-      *)
(* engine table as it was.                                                  *)
C2_MissingEngineLeavesTable ==
    (IsPrepare /\ last.args.engine_name[2] \notin DOMAIN available_engines) =>
        /\ ErrType(last) = "TemplateEngineMissing"
        /\ engines = Before

\* An unregistered engine is prepared under an alias that has an entry.
C2_Witness ==
    /\ IsPrepare
    /\ last.args.engine_name = Str("kid")
    /\ last.args.alias = Str("alt")
    /\ "alt" \in DOMAIN Before
    /\ ErrType(last) = "TemplateEngineMissing"

(* C3: a render call with no cache directive that does not fail calls the   *)
(* render method of the engine instance prepared under its name exactly     *)
(* once, calls no other engine and no cache, and returns what that call     *)
(* returned.                                                                *)
C3_UncachedRenderCallsEngineOnce ==
    (IsRender /\ NoDirective /\ last.raised = NoError) =>
        /\ HasEntry(Named)
        /\ Len(Calls) = 1
        /\ Calls[1].engine = Before[Named[2]].engine.id
        /\ last.cache_calls = <<>>
        /\ last.value = Calls[1].returned

\* An uncached render of an aliased engine returns, with another engine
\* prepared beside it.
C3_Witness ==
    /\ IsRender
    /\ NoDirective
    /\ last.raised = NoError
    /\ last.args.engine_name = Str("alt")
    /\ Cardinality(DOMAIN Before) > 1
    /\ last.value # None

(* C5: for a prepared engine other than pylonsmyghty, given an explicit     *)
(* namespace and include_pylons_variables true, the namespace passed to the *)
(* engine has every key of the ambient namespace and every key of the       *)
(* explicit one; a key of the explicit namespace has the explicit value, a  *)
(* key of the ambient namespace alone has the ambient value.                *)
C5_ExplicitNamespaceWins ==
    (/\ IsRender
     /\ HasEntry(Named)
     /\ Named # Str("pylonsmyghty")
     /\ last.args.namespace # None
     /\ last.args.include = PyTrue
     /\ Calls # <<>>) =>
        LET explicit == last.args.namespace[2]
            snapshot == pylons_globals(last.args.session)
            passed == Calls[1].namespace
        IN  /\ DOMAIN passed = DOMAIN snapshot \cup DOMAIN explicit
            /\ \A k \in DOMAIN explicit : passed[k] = explicit[k]
            /\ \A k \in DOMAIN snapshot \ DOMAIN explicit :
                   passed[k] = snapshot[k]

\* The explicit namespace names c, which the ambient namespace names too.
C5_Witness ==
    /\ IsRender
    /\ HasEntry(Named)
    /\ Named = Str("genshi")
    /\ last.args.namespace # None
    /\ last.args.include = PyTrue
    /\ Calls # <<>>
    /\ "c" \in DOMAIN last.args.namespace[2]
    /\ Calls[1].namespace["c"] = Str("mine")
    /\ Calls[1].namespace["request"] = Obj("pylons.request")

(* C6: for a prepared engine other than pylonsmyghty, render with           *)
(* include_pylons_variables false and no namespace raises the "namespace    *)
(* required" BuffetError, with or without cache directives, calls no        *)
(* engine's render and consults no cache.                                   *)
C6_NamespaceRequired ==
    (/\ IsRender
     /\ HasEntry(Named)
     /\ Named # Str("pylonsmyghty")
     /\ last.args.include = PyFalse
     /\ last.args.namespace = None) =>
        /\ last.raised = Raise("BuffetError",
               "You must specify namespace when include_pylons_variables is False")
        /\ Calls = <<>>
        /\ last.cache_calls = <<>>

\* The call comes with a cache directive, on the Myghty plugin under an alias.
C6_Witness ==
    /\ IsRender
    /\ Named = Str("alt")
    /\ HasEntry(Named)
    /\ Before["alt"].engine.cls = "MyghtyTemplatePlugin"
    /\ last.args.include = PyFalse
    /\ last.args.namespace = None
    /\ ~NoDirective
    /\ ErrType(last) = "BuffetError"

\* The options a render call was given, without a format that is None
GivenOptions ==
    [k \in {x \in DOMAIN last.args.options :
               ~(x = "format" /\ last.args.options[x] = None)}
        |-> last.args.options[k]]

\* The reserved keywords the legacy engine finds in the given namespace
ReservedGiven ==
    IF Named = Str("pylonsmyghty") /\ last.args.namespace # None
    THEN [k \in {"output_encoding", "encoding_errors", "disable_unicode"}
                \cap DOMAIN last.args.namespace[2] |-> last.args.namespace[2][k]]
    ELSE EmptyDict

C8_AsStated ==
    (/\ IsRender
     /\ last.args.engine_name = None
     /\ last.args.namespace # None
     /\ last.args.include = PyFalse
     /\ NoDirective
     /\ "genshi" \in DOMAIN Before) =>
        /\ Len(Calls) = 1
        /\ Calls[1].engine = Before["genshi"].engine.id
        /\ Calls[1].namespace = last.args.namespace[2]
        /\ last.raised = Calls[1].raised
        /\ last.value = Calls[1].returned

(* C8, amended: on a Buffet instance whose default engine is a registered   *)
(* engine E other than pylonsmyghty, after prepare(E, template_root=R), a   *)
(* render call that gives only a template name, a namespace N and           *)
(* include_pylons_variables false (no engine name, no cache directive)      *)
(* passes exactly N to the instance prepared under E, once, and returns     *)
(* that call's output.                                                      *)
C8_DefaultEngineGetsNamespace ==
    (/\ IsRender
     /\ last.args.engine_name = None
     /\ last.args.namespace # None
     /\ last.args.include = PyFalse
     /\ NoDirective
     /\ default_engine = Str("genshi")
     /\ "genshi" \in DOMAIN Before) =>
        /\ Len(Calls) = 1
        /\ Calls[1].engine = Before["genshi"].engine.id
        /\ Calls[1].namespace = last.args.namespace[2]
        /\ last.raised = Calls[1].raised
        /\ last.value = Calls[1].returned

\* The spec's scenario on an instance whose default engine is the one
\* prepared again with a root: hello.txt, {"name": "Ada"}, no ambient names.
C8_Witness ==
    /\ IsRender
    /\ last.args.engine_name = None
    /\ default_engine = Str("genshi")
    /\ Before["genshi"].root = Str("/tpl")
    /\ Before["genshi"].engine.id > 1
    /\ last.args.template_name = "hello.txt"
    /\ last.args.namespace = Dict([k \in {"name"} |-> Str("Ada")])
    /\ last.args.include = PyFalse
    /\ NoDirective
    /\ Len(Calls) = 1
    /\ Calls[1].template = "tpl.hello.txt"
    /\ last.value = Calls[1].returned
    /\ last.raised = NoError

\* The entry a successful prepare call stores, in the words of the call: the
\* registered factory's instance, given the call's config without the
\* extra_vars_func of the entry's name, and the call's template root.
StoredName == IF last.args.alias = None THEN last.args.engine_name[2]
              ELSE last.args.alias[2]

BuiltFromCall(entry) ==
    LET key == StoredName \o ".extra_vars_func"
        config == last.args.config
    IN  /\ entry.root = last.args.template_root
        /\ Obj(entry.engine.cls) = available_engines[last.args.engine_name[2]]
        /\ entry.engine.options = [k \in DOMAIN config \ {key} |-> config[k]]
        /\ entry.engine.extra_vars =
               IF key \in DOMAIN config THEN config[key] ELSE None

(* C9: after prepare(E) and then prepare(E, alias=A) with A other than E    *)
(* the table holds entries E and A with distinct engine instances, the      *)
(* entry A built from the second call's options and template root, the      *)
(* entry E unchanged by the second call; render calls naming E and A go to  *)
(* their own instance.  A prepare call stores one entry, built from its own *)
(* options and root around a new instance, under its alias or else its      *)
(* name, replacing the entry of that name and leaving every other entry as  *)
(* it was; no two entries hold the same instance.                           *)
C9_AliasIsSecondInstance ==
    /\ (IsPrepare /\ last.raised = NoError) =>
           /\ DOMAIN engines = DOMAIN Before \cup {StoredName}
           /\ \A k \in DOMAIN Before \ {StoredName} : engines[k] = Before[k]
           /\ BuiltFromCall(engines[StoredName])
           /\ \A k \in DOMAIN Before :
                  engines[StoredName].engine.id # Before[k].engine.id
    /\ \A j, k \in DOMAIN engines :
           j # k => engines[j].engine.id # engines[k].engine.id
    /\ (IsRender /\ last.args.engine_name # None /\ Calls # <<>>) =>
           /\ Len(Calls) = 1
           /\ Calls[1].engine = engines[last.args.engine_name[2]].engine.id

\* genshi is prepared, then prepared again under the alias alt with another
\* root and other options.
C9_Witness ==
    /\ IsPrepare
    /\ last.raised = NoError
    /\ last.args.engine_name = Str("genshi")
    /\ last.args.alias = Str("alt")
    /\ "genshi" \in DOMAIN Before
    /\ "alt" \notin DOMAIN Before
    /\ engines["alt"].root # engines["genshi"].root
    /\ engines["alt"].engine.extra_vars = Obj("extra_vars")
    /\ engines["genshi"].engine.options # engines["alt"].engine.options

-----------------------------------------------------------------------------
(* cached_template, checked under CacheSpec *)

\* The cache namespace in the words of the spec: the template name followed
\* by the string form of the value kwargs holds for each name of ns_options
ExpectedNamespace ==
    LET o == last.args.ns_options
        v(i) == IF o[i] \in DOMAIN last.args.options
                THEN PyStr(last.args.options[o[i]]) ELSE "None"
    IN  last.args.template_name
        \o (IF Len(o) > 0 THEN v(1) ELSE "")
        \o (IF Len(o) > 1 THEN v(2) ELSE "")

(* C4: of two cached_template calls in a row with the same template name,   *)
(* ns_options, kwargs, cache_key, cache_type and callback and with          *)
(* cache_expire "never", on a cache with get-or-populate semantics, the     *)
(* second returns what the first returned, and is served from the value     *)
(* held under the same (namespace, key) with no expiry: the second call     *)
(* does not run the callback, so the two calls run it at most once.         *)
C4_NeverExpiresServesSecondCall ==
    (IsCachedTemplate /\ last.repeat /\ last.args.cache_expire = Str("never")) =>
        /\ last.raised = NoError
        /\ last.value = last.previous
        /\ ~last.created
        /\ last.direct_calls = 0
        /\ Len(last.cache_calls) = 1
        /\ last.cache_calls[1].hit
        /\ last.cache_calls[1].expiretime = None
        /\ last.cache_calls[1].namespace = ExpectedNamespace
        /\ <<ExpectedNamespace, last.cache_calls[1].key>> \in DOMAIN cache
        /\ last.value = cache[<<ExpectedNamespace, last.cache_calls[1].key>>]

\* The first call ran the callback and stored its output, the value's age
\* has passed any finite expiry time, and the second call is served the
\* stored output.
C4_Witness ==
    /\ IsCachedTemplate
    /\ last.repeat
    /\ last.args.cache_expire = Str("never")
    /\ last.args.cache_key = None
    /\ last.args.cache_type = None
    /\ last.previous_created
    /\ ~last.created
    /\ last.value = <<"output", last.args.render_func>>

-----------------------------------------------------------------------------
(* Discovery, checked under DiscoverySpec *)

\* The entry points the loop has been through, in the group's order
Processed == SubSeq(discovery.entry_points, 1, discovery.pos - 1)

LoadedOk(e) == e.outcome = "ok"

\* The one failure no warning is given for
Tolerated(e) == e.name = "pylonsmyghty" /\ e.outcome = "DistributionNotFound"

FailedLoud(e) == ~LoadedOk(e) /\ ~Tolerated(e)

\* The position of the last entry point named n that loaded
LastLoaded(n) ==
    CHOOSE i \in 1..Len(Processed) :
        /\ Processed[i].name = n
        /\ LoadedOk(Processed[i])
        /\ \A j \in (i + 1)..Len(Processed) :
               ~(Processed[j].name = n /\ LoadedOk(Processed[j]))

-----------------------------------------------------------------------------
(* Cached variants of a template, checked under VariantSpec *)

\* The latest call and the one before it are both render calls that went to
\* the cache.
TwoCachedRenders ==
    /\ IsRender
    /\ last.earlier # None
    /\ Len(last.cache_calls) = 1
    /\ Len(last.earlier[2].cache_calls) = 1

\* The (fragment, format) pair of a call's options
VariantPair(options) ==
    <<DictGet(options, "fragment", PyFalse), DictGet(options, "format", None)>>

(* C12: in Buffet.render with a cache directive, the cache namespace is the *)
(* full template identifier, then a suffix for the fragment option when it  *)
(* is set, then a suffix for the format option when it is set; and two      *)
(* cached render calls on the same template identifier whose (fragment,     *)
(* format) pairs differ use different cache namespaces, so that the second  *)
(* is never handed the output the first one cached.                         *)
C12_VariantsKeptApart ==
    /\ (IsRender /\ Len(last.cache_calls) = 1) =>
           \E full_path \in {"hello.txt", "tpl.hello.txt"} :
               last.cache_calls[1].namespace =
                   full_path
                   \o (IF "fragment" \in DOMAIN last.args.options
                       THEN "_frag" ELSE "")
                   \o (IF "format" \in DOMAIN last.args.options
                       THEN last.args.options["format"][2] ELSE "")
    /\ (/\ TwoCachedRenders
        /\ last.args.template_name = last.earlier[2].args.template_name
        /\ VariantPair(last.args.options)
               # VariantPair(last.earlier[2].args.options))
       => /\ last.cache_calls[1].namespace
                 # last.earlier[2].cache_calls[1].namespace
          /\ (last.cache_calls[1].hit /\ last.resolved = Str("genshi"))
                 => last.value[2].options = Dict(last.args.options)

-----------------------------------------------------------------------------
(* What render leaves alone, checked under Spec *)

(* C13: a render call, whether it returns or raises, cached or not, on the  *)
(* legacy engine or another, leaves the prepared-engine table (its names,   *)
(* and the engine instance and root stored for each), the default engine,   *)
(* the template root and the engine registry as they were; a step that      *)
(* changes the table is a prepare call or the constructor.                  *)
C13_RenderLeavesTable ==
    [][/\ last'.op = "render" =>
           /\ engines' = engines
           /\ default_engine' = default_engine
           /\ template_root' = template_root
           /\ available_engines' = available_engines
       /\ engines' # engines => last'.op \in {"prepare", "__init__"}]_vars

\* A cached render on the legacy engine has returned, and the table it found
\* holds two entries: it is the table the call leaves.
C13_Witness ==
    /\ IsRender
    /\ last.raised = NoError
    /\ last.resolved = Str(LegacyName)
    /\ Len(last.cache_calls) = 1
    /\ Len(Calls) = 1
    /\ Cardinality(DOMAIN Before) = 2
    /\ engines = Before

====
